---- MODULE Spec2Model ----
(***************************************************************************)
(* Model of scripts/gen_ex_data.py (the Generator) and                     *)
(* scripts/plot_comparison.py (the Comparator).                            *)
(*                                                                         *)
(* Both scripts are straight-line programs; each statement (or loop        *)
(* iteration) is one action, and gpc / cpc are the positions in the two    *)
(* scripts.  The scripts share nothing but the directory scripts/../files. *)
(*                                                                         *)
(* Numbers.  A float is modelled on a grid of step 1/100: the integer v    *)
(* stands for the double v/100.  On the Comparator's side every column has *)
(* dtype float and may hold NaN, so a float there is a record              *)
(* [nan |-> BOOLEAN, v |-> Int].                                           *)
(*                                                                         *)
(* Text.  A CSV line is a sequence of characters (one-character strings);  *)
(* a column name is a single token such as "feature_0".  to_csv formats    *)
(* and joins with the separator, read_csv splits on the separator and      *)
(* parses.                                                                 *)
(***************************************************************************)
EXTENDS Integers, Sequences, FiniteSets, TLC

\* gen_ex_data.py:10-12.  N_SAMPLES (100 in the script) and N_CLASSES (3 in
\* the script) are scaled down; N_DIMS is the script's value.
N_SAMPLES == 2
N_DIMS == 2
N_CLASSES == 2

\* How many times the Generator is run in one behaviour.
MaxRuns == 2

\* Decimal texts with at most this many significant digits are converted
\* exactly by read_csv's default converter (stands for the 15 digits a
\* double always carries; repr() writes up to 17).
ExactDigits == 2

VARIABLES
    dir,              \* does scripts/../files exist
    files,            \* file name -> the file
    run,              \* number of the current Generator run (0 = never started)
    argv_plot,        \* "--plot" in sys.argv, for the current run
    gpc,              \* position in gen_ex_data.py
    dir0,             \* did the directory exist when the current run started
    made,             \* did the current run call os.mkdir
    cls,              \* loop variable of line 20
    dfs,              \* the list dfs
    df,               \* the frame df (line 30), NoFrame before
    shown,            \* has the pairplot of the current run been shown
    seed,             \* the state numpy's unseeded generator started the run with
    gerr,             \* the statement whose exception ended the Generator, "" if none
    cpc,              \* position in plot_comparison.py
    prediction,       \* the Comparator's three frames, NoFrame before they are read
    ground_truth,
    cluster_centers,
    fig,              \* has plt.subplots created the figure
    ax,               \* ax[1], ax[2]: the series drawn on the top / bottom subplot
    todo,             \* values of the running for loop still to be visited
    raised            \* the exception that ended the Comparator and where, "" if none

gvars == <<run, argv_plot, gpc, dir0, made, cls, dfs, df, shown, seed, gerr>>
cvars == <<cpc, prediction, ground_truth, cluster_centers, fig, ax, todo, raised>>
vars == <<dir, files, gvars, cvars>>

----------------------------------------------------------------------------
(* Sequences *)

Range(s) == {s[i] : i \in DOMAIN s}

RECURSIVE Flatten(_)
Flatten(ss) == IF ss = <<>> THEN <<>> ELSE Head(ss) \o Flatten(Tail(ss))

RECURSIVE Join(_, _)
\* sep.join(fields)
Join(fields, sep) ==
    IF fields = <<>> THEN <<>>
    ELSE IF Len(fields) = 1 THEN fields[1]
    ELSE fields[1] \o <<sep>> \o Join(Tail(fields), sep)

RECURSIVE Split(_, _)
\* line.split(sep): always at least one (possibly empty) field
Split(line, sep) ==
    IF \A i \in DOMAIN line : line[i] # sep THEN <<line>>
    ELSE LET k == CHOOSE i \in DOMAIN line :
                      line[i] = sep /\ \A j \in 1..(i - 1) : line[j] # sep
         IN  <<SubSeq(line, 1, k - 1)>> \o Split(SubSeq(line, k + 1, Len(line)), sep)

RECURSIVE SeqProduct(_)
\* all sequences s with s[i] \in sets[i]
SeqProduct(sets) ==
    IF sets = <<>> THEN {<<>>}
    ELSE {<<h>> \o t : h \in Head(sets), t \in SeqProduct(Tail(sets))}

----------------------------------------------------------------------------
(* Numbers and their text *)

Abs(n) == IF n < 0 THEN -n ELSE n

Digits == <<"0", "1", "2", "3", "4", "5", "6", "7", "8", "9">>
IsDigit(c) == \E d \in DOMAIN Digits : Digits[d] = c
DigitVal(c) == (CHOOSE d \in DOMAIN Digits : Digits[d] = c) - 1

RECURSIVE IntDigits(_)
\* the decimal digits of n >= 0
IntDigits(n) ==
    IF n < 10 THEN <<Digits[n + 1]>>
    ELSE Append(IntDigits(n \div 10), Digits[(n % 10) + 1])

RECURSIVE Num(_)
\* the number a sequence of digits denotes (0 for the empty sequence)
Num(ds) ==
    IF ds = <<>> THEN 0
    ELSE Num(SubSeq(ds, 1, Len(ds) - 1)) * 10 + DigitVal(ds[Len(ds)])

\* str(n) of a Python int: what to_csv writes for an int64 cell
FormatInt(n) == (IF n < 0 THEN <<"-">> ELSE <<>>) \o IntDigits(Abs(n))

\* FormatFloat with the fraction cut to one digit, as float_format="%.1f"
\* would write it
FormatFloatOneDigit(v) ==
    (IF v < 0 THEN <<"-">> ELSE <<>>)
    \o IntDigits(Abs(v) \div 100) \o <<".">> \o <<Digits[((Abs(v) % 100) \div 10) + 1]>>

\* repr(v/100) of a float64 cell: sign, integer part, point, and the
\* fraction without trailing zeros but never empty ("0.5", "-0.05", "1.0")
FormatFloat(v) ==
    LET a == Abs(v)
        f == a % 100
    IN  (IF v < 0 THEN <<"-">> ELSE <<>>)
        \o IntDigits(a \div 100) \o <<".">>
        \o (IF f % 10 = 0 THEN <<Digits[(f \div 10) + 1]>>
            ELSE <<Digits[(f \div 10) + 1], Digits[(f % 10) + 1]>>)

RECURSIVE StripZeros(_)
StripZeros(m) == IF m > 0 /\ m % 10 = 0 THEN StripZeros(m \div 10) ELSE m

\* number of significant decimal digits of v/100
SigDigits(v) == Len(IntDigits(StripZeros(Abs(v))))

NaN == [nan |-> TRUE, v |-> 0]
Float(v) == [nan |-> FALSE, v |-> v]

\* a == b on two float64 values: NaN is equal to nothing, itself included
FloatEq(a, b) == ~a.nan /\ ~b.nan /\ a.v = b.v

\* The values read_csv(dtype="float") can return for one field; the empty set
\* when the field is no number (ValueError).  An empty field is NaN.  The
\* call passes no float_precision, so the default converter is used, which
\* does not promise the nearest double: a text with more than ExactDigits
\* significant digits may come back one grid step off.
ParseFloat(field) ==
    IF field = <<>> THEN {NaN}
    ELSE
    LET neg == field[1] = "-"
        body == IF neg THEN Tail(field) ELSE field
        parts == Split(body, ".")
        ok == /\ body # <<>>
              /\ Len(parts) <= 2
              /\ \A i \in DOMAIN body : IsDigit(body[i]) \/ body[i] = "."
              /\ \E i \in DOMAIN body : IsDigit(body[i])
    IN  IF ~ok THEN {}
        ELSE
        LET frac == IF Len(parts) = 2 THEN parts[2] ELSE <<>>
            mag == Num(parts[1]) * 100 + Num(SubSeq(frac \o <<"0", "0">>, 1, 2))
            v == IF neg THEN -mag ELSE mag
        IN  IF SigDigits(v) > ExactDigits
            THEN {Float(v - 1), Float(v), Float(v + 1)}
            ELSE {Float(v)}

----------------------------------------------------------------------------
(* Frames and CSV files *)

\* A DataFrame: column names, per-column dtype ("float" / "int"), the row
\* labels (index) and the rows.
NoFrame == [columns |-> <<>>, kinds |-> <<>>, index |-> <<>>, data |-> <<>>]

ColumnPos(frame, name) == CHOOSE k \in DOMAIN frame.columns : frame.columns[k] = name

\* frame[name]
Column(frame, name) ==
    [r \in DOMAIN frame.data |-> frame.data[r][ColumnPos(frame, name)]]

FormatCell(kind, x) == IF kind = "int" THEN FormatInt(x) ELSE FormatFloat(x)

\* to_csv without its columns argument: every column is written
to_csv_all_columns(frame, sep, index, columns) ==
    LET header == (IF index THEN <<<<>>>> ELSE <<>>)
                  \o [k \in DOMAIN frame.columns |-> <<frame.columns[k]>>]
        line(r) == (IF index THEN <<FormatInt(frame.index[r])>> ELSE <<>>)
                   \o [k \in DOMAIN frame.columns |->
                         FormatCell(frame.kinds[k], frame.data[r][k])]
    IN  <<Join(header, sep)>> \o [r \in DOMAIN frame.data |-> Join(line(r), sep)]

\* The lines DataFrame.to_csv(sep=sep, index=index, columns=columns) writes:
\* a header line, then one line per row, the chosen columns in the order
\* given; with index=True the row label comes first, under an empty name.
to_csv(frame, sep, index, columns) ==
    LET pos == [k \in DOMAIN columns |-> ColumnPos(frame, columns[k])]
        header == (IF index THEN <<<<>>>> ELSE <<>>)
                  \o [k \in DOMAIN columns |-> <<columns[k]>>]
        line(r) == (IF index THEN <<FormatInt(frame.index[r])>> ELSE <<>>)
                   \o [k \in DOMAIN columns |->
                         FormatCell(frame.kinds[pos[k]], frame.data[r][pos[k]])]
    IN  <<Join(header, sep)>> \o [r \in DOMAIN frame.data |-> Join(line(r), sep)]

\* A file: its lines, the Generator run that wrote it last (0: not the
\* Generator) and how many times it has been written
NoFile == [exists |-> FALSE, lines |-> <<>>, by |-> 0, n |-> 0]

\* Written with the file opened in append mode
WrittenAppend(old, lines, r) ==
    [exists |-> TRUE, lines |-> old.lines \o lines, by |-> r, n |-> old.n + 1]


\* open(path, "w") and write: the old content is replaced
Written(old, lines, r) == [exists |-> TRUE, lines |-> lines, by |-> r, n |-> old.n + 1]

FileNames == {"sample_data.csv", "ground_truth.csv", "predicted_classes.csv", "clusters.csv"}

----------------------------------------------------------------------------
(* gen_ex_data.py *)

\* The Generator does not seed numpy: each run starts from a state the
\* operating system picks.  Seeds are the states considered; the draws of a
\* run are a function of its seed and of the place of the call.
Seeds == {1, 2}

\* np.random.uniform(low=0.0, high=1.0, size=N_DIMS)[i], for class c
Locs(s, c, i) == ((s + c + 15 * i) % 20) * 5
\* np.random.uniform(low=0.0, high=0.15, size=N_DIMS)[i], for class c
Stds(s, c, i) == ((s + c + i + 2) % 3) * 5
\* np.random.normal(loc, scale, size=N_SAMPLES)[j - 1], for class c, feature i
Normal(s, c, i, loc, scale, j) == loc + scale * (((s * j + c + i) % 5) - 2)

FeatureNames == <<"feature_0", "feature_1", "feature_2", "feature_3">>
\* f"feature_{i}"
FeatureName(i) == FeatureNames[i + 1]

\* ClassFrame with line 27 filling the column with the comprehension's i
\* instead of cls
ClassFrameRowNumber(s, c) ==
    [columns |-> [k \in 1..N_DIMS |-> FeatureName(k - 1)] \o <<"cls">>,
     kinds   |-> [k \in 1..N_DIMS |-> "float"] \o <<"int">>,
     index   |-> [j \in 1..N_SAMPLES |-> j - 1],
     data    |-> [j \in 1..N_SAMPLES |->
                    [k \in 1..N_DIMS |->
                        Normal(s, c, k - 1, Locs(s, c, k - 1), Stds(s, c, k - 1), j)]
                    \o <<j - 1>>]]

\* Lines 21-27: the frame tmp of class c
ClassFrame(s, c) ==
    [columns |-> [k \in 1..N_DIMS |-> FeatureName(k - 1)] \o <<"cls">>,
     kinds   |-> [k \in 1..N_DIMS |-> "float"] \o <<"int">>,
     index   |-> [j \in 1..N_SAMPLES |-> j - 1],
     data    |-> [j \in 1..N_SAMPLES |->
                    [k \in 1..N_DIMS |->
                        Normal(s, c, k - 1, Locs(s, c, k - 1), Stds(s, c, k - 1), j)]
                    \o <<c>>]]

\* pd.concat(dfs): the rows of the frames one after the other, each row
\* keeping its label (ignore_index is not passed)
concat(frames) ==
    IF frames = <<>> THEN NoFrame
    ELSE [columns |-> frames[1].columns,
          kinds   |-> frames[1].kinds,
          index   |-> Flatten([k \in DOMAIN frames |-> frames[k].index]),
          data    |-> Flatten([k \in DOMAIN frames |-> frames[k].data])]

GenIdle == gpc \in {"idle", "done", "aborted"}

\* An uncaught exception at statement `at`: the interpreter exits, the
\* process's memory is gone, the files stay as they are.
GenRaise(at) ==
    /\ gpc' = "aborted"
    /\ gerr' = at
    /\ cls' = 0
    /\ dfs' = <<>>
    /\ df' = NoFrame
    /\ UNCHANGED <<dir, files, run, argv_plot, dir0, made, shown, seed, cvars>>

\* python gen_ex_data.py [--plot]: lines 1-14
GenStart(plot, s) ==
    /\ GenIdle
    /\ cpc = "idle"
    /\ ~files["predicted_classes.csv"].exists /\ ~files["clusters.csv"].exists
    /\ run < MaxRuns
    /\ run' = run + 1
    /\ argv_plot' = plot
    /\ seed' = s
    /\ gpc' = "exists"
    /\ dir0' = dir
    /\ made' = FALSE
    /\ shown' = FALSE
    /\ gerr' = ""
    /\ cls' = 0
    /\ dfs' = <<>>
    /\ df' = NoFrame
    /\ UNCHANGED <<dir, files, cvars>>

\* Line 16, os.path.exists(out_path) true; line 19
DirExists ==
    /\ gpc = "exists"
    /\ dir
    /\ gpc' = "loop"
    /\ dfs' = <<>>
    /\ UNCHANGED <<dir, files, run, argv_plot, dir0, made, cls, df, shown, seed, gerr, cvars>>

\* MkDir with the call of line 17 left out
MkDirSkipped ==
    /\ gpc = "exists"
    /\ ~dir
    /\ gpc' = "loop"
    /\ dfs' = <<>>
    /\ UNCHANGED <<dir, made, files, run, argv_plot, dir0, cls, df, shown, seed, gerr, cvars>>

\* Lines 16-17, os.mkdir(out_path); line 19
MkDir ==
    /\ gpc = "exists"
    /\ ~dir
    /\ dir' = TRUE
    /\ made' = TRUE
    /\ gpc' = "loop"
    /\ dfs' = <<>>
    /\ UNCHANGED <<files, run, argv_plot, dir0, cls, df, shown, seed, gerr, cvars>>

\* Line 17, os.mkdir raises (the parent is not writable)
MkDirFails ==
    /\ gpc = "exists"
    /\ ~dir
    /\ GenRaise("mkdir")

\* Lines 20-28, one iteration
GenClass ==
    /\ gpc = "loop"
    /\ cls < N_CLASSES
    /\ dfs' = Append(dfs, ClassFrame(seed, cls))
    /\ cls' = cls + 1
    /\ UNCHANGED <<dir, files, run, argv_plot, gpc, dir0, made, df, shown, seed, gerr, cvars>>

\* Line 30, and the test of line 31
Concat ==
    /\ gpc = "loop"
    /\ cls = N_CLASSES
    /\ df' = concat(dfs)
    /\ gpc' = IF argv_plot THEN "plot" ELSE "write_sample"
    /\ UNCHANGED <<dir, files, run, argv_plot, dir0, made, cls, dfs, shown, seed, gerr, cvars>>

\* Plot with df sorted for the plot in place (here: its rows reversed)
PlotInPlace ==
    /\ gpc = "plot"
    /\ shown' = TRUE
    /\ df' = [df EXCEPT !.data = [k \in DOMAIN df.data |-> df.data[Len(df.data) + 1 - k]]]
    /\ gpc' = "write_sample"
    /\ UNCHANGED <<dir, files, run, argv_plot, dir0, made, cls, dfs, seed, gerr, cvars>>

\* Lines 32-33: sns.pairplot(df, hue="cls"); plt.show().  The plot reads df.
Plot ==
    /\ gpc = "plot"
    /\ shown' = TRUE
    /\ gpc' = "write_sample"
    /\ UNCHANGED <<dir, files, run, argv_plot, dir0, made, cls, dfs, df, seed, gerr, cvars>>

\* Lines 32-33 raise (no display, for one)
PlotFails ==
    /\ gpc = "plot"
    /\ GenRaise("plot")

\* Lines 35-36
WriteSample ==
    /\ gpc = "write_sample"
    /\ dir
    /\ files' = [files EXCEPT !["sample_data.csv"] =
                    Written(@, to_csv(df, ";", FALSE,
                                      [k \in 1..N_DIMS |-> FeatureName(k - 1)]), run)]
    /\ gpc' = "write_truth"
    /\ UNCHANGED <<dir, run, argv_plot, dir0, made, cls, dfs, df, shown, seed, gerr, cvars>>

\* Lines 35-36, the file cannot be opened for writing
WriteSampleFails ==
    /\ gpc = "write_sample"
    /\ GenRaise("sample")

\* Line 38
WriteTruth ==
    /\ gpc = "write_truth"
    /\ dir
    /\ files' = [files EXCEPT !["ground_truth.csv"] =
                    Written(@, to_csv(df, ";", FALSE, df.columns), run)]
    /\ gpc' = "done"
    /\ UNCHANGED <<dir, run, argv_plot, dir0, made, cls, dfs, df, shown, seed, gerr, cvars>>

\* WriteTruthFails with the half-done result removed before the exit
WriteTruthFailsCleanUp ==
    /\ gpc = "write_truth"
    /\ gpc' = "aborted"
    /\ gerr' = "truth"
    /\ cls' = 0
    /\ dfs' = <<>>
    /\ df' = NoFrame
    /\ files' = [files EXCEPT !["sample_data.csv"] = NoFile]
    /\ UNCHANGED <<dir, run, argv_plot, dir0, made, shown, seed, cvars>>

\* Line 38, the file cannot be opened for writing
WriteTruthFails ==
    /\ gpc = "write_truth"
    /\ GenRaise("truth")

Generator ==
    \/ \E plot \in BOOLEAN, s \in Seeds : GenStart(plot, s)
    \/ DirExists
    \/ MkDir
    \/ MkDirFails
    \/ GenClass
    \/ Concat
    \/ Plot
    \/ PlotFails
    \/ WriteSample
    \/ WriteSampleFails
    \/ WriteTruth
    \/ WriteTruthFails

----------------------------------------------------------------------------
(* plot_comparison.py *)

\* What pd.read_csv(path, sep=sep, dtype="float", names=names,
\* skiprows=skiprows) can do: a set of outcomes [error, frame], error = ""
\* for a frame returned.  skiprows lines are dropped, blank lines are
\* skipped, every line is split on sep, a line with fewer fields than names
\* is filled up with NaN, and every field is converted to float.  (A line
\* with more fields than names is reported as a ParserError; pandas does so
\* when the line is longer than the first one, and no file considered here
\* has a first line longer than names.)
read_csv(file, sep, names, skiprows) ==
    LET fail(e) == {[error |-> e, frame |-> NoFrame]}
        kept == SubSeq(file.lines, skiprows + 1, Len(file.lines))
        lines == SelectSeq(kept, LAMBDA l : l # <<>>)
        rows == [r \in DOMAIN lines |-> Split(lines[r], sep)]
        cells == [r \in DOMAIN rows |->
                    [k \in DOMAIN names |->
                        IF k <= Len(rows[r]) THEN ParseFloat(rows[r][k]) ELSE {NaN}]]
    IN  IF ~file.exists THEN fail("FileNotFoundError")
        ELSE IF lines = <<>> THEN fail("EmptyDataError")
        ELSE IF \E r \in DOMAIN rows : Len(rows[r]) > Len(names) THEN fail("ParserError")
        ELSE IF \E r \in DOMAIN cells : \E k \in DOMAIN names : cells[r][k] = {}
             THEN fail("ValueError")
        ELSE {[error |-> "",
               frame |-> [columns |-> names,
                          kinds   |-> [k \in DOMAIN names |-> "float"],
                          index   |-> [r \in DOMAIN rows |-> r - 1],
                          data    |-> d]] :
                d \in SeqProduct([r \in DOMAIN cells |-> SeqProduct(cells[r])])}

\* unique without the removal of repeated values
unique_all(col) == col

RECURSIVE unique(_)
\* Series.unique(): the distinct values in order of first appearance; all
\* NaN count as one value
unique(col) ==
    IF col = <<>> THEN <<>>
    ELSE LET u == unique(SubSeq(col, 1, Len(col) - 1))
             x == col[Len(col)]
         IN  IF \E k \in DOMAIN u : u[k] = x THEN u ELSE Append(u, x)

\* frame[frame[name] == value]: the rows whose cell compares equal, with
\* their labels
Where(frame, name, value) ==
    LET col == Column(frame, name)
        keep == {r \in DOMAIN col : FloatEq(col[r], value)}
        pick == SelectSeq([r \in DOMAIN col |-> r], LAMBDA r : r \in keep)
    IN  [frame EXCEPT !.index = [k \in DOMAIN pick |-> frame.index[pick[k]]],
                      !.data  = [k \in DOMAIN pick |-> frame.data[pick[k]]]]

\* The colours matplotlib's default property cycle hands out, in order
CycleColors == <<"C0", "C1", "C2", "C3", "C4", "C5", "C6", "C7", "C8", "C9">>

\* the colour Axes.scatter takes when none is given: the next of the axes'
\* cycle, which only the series drawn without a colour advance
NextColor(axes) ==
    LET taken == Cardinality({k \in DOMAIN axes.series : axes.series[k].cycled})
    IN  CycleColors[(taken % Len(CycleColors)) + 1]

\* axes.scatter(tmp[xname], tmp[yname]): one more series on the axes; rows
\* are the labels of the rows drawn
scatter(axes, tmp, xname, yname) ==
    [axes EXCEPT !.series = Append(@,
        [x |-> Column(tmp, xname), y |-> Column(tmp, yname), rows |-> tmp.index,
         color |-> NextColor(axes), cycled |-> TRUE, marker |-> "o", s |-> 36])]

\* axes.scatter(..., color="red", s=50, marker="x")
scatter_x(axes, tmp, xname, yname) ==
    [axes EXCEPT !.series = Append(@,
        [x |-> Column(tmp, xname), y |-> Column(tmp, yname), rows |-> tmp.index,
         color |-> "red", cycled |-> FALSE, marker |-> "x", s |-> 50])]

NoAxes == [series |-> <<>>, title |-> ""]

NotRaised == [error |-> "", at |-> ""]

\* An uncaught exception: the interpreter exits
CmpRaise(e) ==
    /\ cpc' = "aborted"
    /\ raised' = [error |-> e, at |-> cpc]
    /\ prediction' = NoFrame
    /\ ground_truth' = NoFrame
    /\ cluster_centers' = NoFrame
    /\ UNCHANGED <<dir, files, gvars, fig, ax, todo>>

\* python plot_comparison.py: lines 1-5
CmpStart ==
    /\ cpc = "idle"
    /\ GenIdle
    /\ cpc' = "read_prediction"
    /\ UNCHANGED <<dir, files, gvars, prediction, ground_truth, cluster_centers,
                   fig, ax, todo, raised>>

\* Lines 7-8
ReadPrediction ==
    /\ cpc = "read_prediction"
    /\ \E o \in read_csv(files["predicted_classes.csv"], ";",
                         <<"feature_1", "feature_2", "cls">>, 0) :
          IF o.error # "" THEN CmpRaise(o.error)
          ELSE /\ prediction' = o.frame
               /\ cpc' = "read_truth"
               /\ UNCHANGED <<dir, files, gvars, ground_truth, cluster_centers,
                              fig, ax, todo, raised>>

\* Lines 9-10
ReadGroundTruth ==
    /\ cpc = "read_truth"
    /\ \E o \in read_csv(files["ground_truth.csv"], ";",
                         <<"feature_1", "feature_2", "cls">>, 1) :
          IF o.error # "" THEN CmpRaise(o.error)
          ELSE /\ ground_truth' = o.frame
               /\ cpc' = "read_clusters"
               /\ UNCHANGED <<dir, files, gvars, prediction, cluster_centers,
                              fig, ax, todo, raised>>

\* ReadClusters falling back to no centres when the file cannot be read
ReadClustersOrNone ==
    /\ cpc = "read_clusters"
    /\ \E o \in read_csv(files["clusters.csv"], ";", <<"feature_1", "feature_2">>, 0) :
          /\ cluster_centers' =
                IF o.error # "" THEN [NoFrame EXCEPT !.columns = <<"feature_1", "feature_2">>]
                ELSE o.frame
          /\ cpc' = "subplots"
          /\ UNCHANGED <<dir, files, gvars, prediction, ground_truth,
                         fig, ax, todo, raised>>

\* Lines 12-13
ReadClusters ==
    /\ cpc = "read_clusters"
    /\ \E o \in read_csv(files["clusters.csv"], ";", <<"feature_1", "feature_2">>, 0) :
          IF o.error # "" THEN CmpRaise(o.error)
          ELSE /\ cluster_centers' = o.frame
               /\ cpc' = "subplots"
               /\ UNCHANGED <<dir, files, gvars, prediction, ground_truth,
                              fig, ax, todo, raised>>

\* Line 14, and the iterable of line 16
Subplots ==
    /\ cpc = "subplots"
    /\ fig' = TRUE
    /\ ax' = <<NoAxes, NoAxes>>
    /\ todo' = unique(Column(prediction, "cls"))
    /\ cpc' = "for_pred"
    /\ UNCHANGED <<dir, files, gvars, prediction, ground_truth, cluster_centers, raised>>

\* Lines 16-18, one iteration
ScatterPrediction ==
    /\ cpc = "for_pred"
    /\ todo # <<>>
    /\ LET pred_class == Head(todo)
           tmp == Where(prediction, "cls", pred_class)
       IN  ax' = [ax EXCEPT ![1] = scatter(@, tmp, "feature_1", "feature_2")]
    /\ todo' = Tail(todo)
    /\ UNCHANGED <<dir, files, gvars, cpc, prediction, ground_truth, cluster_centers,
                   fig, raised>>

\* Line 16 exhausted; the iterable of line 20
EndPrediction ==
    /\ cpc = "for_pred"
    /\ todo = <<>>
    /\ todo' = unique(Column(ground_truth, "cls"))
    /\ cpc' = "for_truth"
    /\ UNCHANGED <<dir, files, gvars, prediction, ground_truth, cluster_centers,
                   fig, ax, raised>>

\* Lines 20-22, one iteration
ScatterGroundTruth ==
    /\ cpc = "for_truth"
    /\ todo # <<>>
    /\ LET ground_class == Head(todo)
           tmp == Where(ground_truth, "cls", ground_class)
       IN  ax' = [ax EXCEPT ![2] = scatter(@, tmp, "feature_1", "feature_2")]
    /\ todo' = Tail(todo)
    /\ UNCHANGED <<dir, files, gvars, cpc, prediction, ground_truth, cluster_centers,
                   fig, raised>>

\* Line 20 exhausted
EndGroundTruth ==
    /\ cpc = "for_truth"
    /\ todo = <<>>
    /\ cpc' = "centers"
    /\ UNCHANGED <<dir, files, gvars, prediction, ground_truth, cluster_centers,
                   fig, ax, todo, raised>>

\* Line 24
ScatterCenters ==
    /\ cpc = "centers"
    /\ ax' = [ax EXCEPT ![1] = scatter_x(@, cluster_centers, "feature_1", "feature_2")]
    /\ cpc' = "titles"
    /\ UNCHANGED <<dir, files, gvars, prediction, ground_truth, cluster_centers,
                   fig, todo, raised>>

\* Lines 25-28
Show ==
    /\ cpc = "titles"
    /\ ax' = [ax EXCEPT ![1].title = "Prediction", ![2].title = "Ground Truth"]
    /\ cpc' = "done"
    /\ UNCHANGED <<dir, files, gvars, prediction, ground_truth, cluster_centers,
                   fig, todo, raised>>

Comparator ==
    \/ CmpStart
    \/ ReadPrediction
    \/ ReadGroundTruth
    \/ ReadClusters
    \/ Subplots
    \/ ScatterPrediction
    \/ EndPrediction
    \/ ScatterGroundTruth
    \/ EndGroundTruth
    \/ ScatterCenters
    \/ Show

----------------------------------------------------------------------------
(* The algorithm under test, which writes the Comparator's other two inputs *)

Line3(x, y, c) == Join(<<FormatFloat(x), FormatFloat(y), FormatInt(c)>>, ";")
Line2(x, y) == Join(<<FormatFloat(x), FormatFloat(y)>>, ";")

\* predicted_classes.csv as considered: three classes; one class more than
\* the colour cycle is long; a line with an empty class field and a line
\* without one; a file written with a header line
PredictionFiles ==
    { <<Line3(10, 20, 0), Line3(30, 40, 1), Line3(50, 60, 2), Line3(15, 25, 0)>>,
      [i \in 1..(Len(CycleColors) + 1) |-> Line3(i, 2 * i, i - 1)],
      <<Line3(10, 20, 0), Line2(30, 40) \o <<";">>, Line2(50, 60), Line3(70, 80, 0)>>,
      <<Join(<<<<"feature_0">>, <<"feature_1">>, <<"cls">>>>, ";"), Line3(10, 20, 0)>> }

\* clusters.csv as considered: two centres; a file written with a header line
ClusterFiles ==
    { <<Line2(20, 30), Line2(60, 70)>>,
      <<Join(<<<<"feature_0">>, <<"feature_1">>>>, ";"), Line2(20, 30)>> }

\* The algorithm under test leaves its output (or part of it, or something
\* the Comparator cannot read) in the directory, once the Generator is done.
External(p, c) ==
    /\ dir
    /\ GenIdle
    /\ cpc = "idle"
    /\ ~files["predicted_classes.csv"].exists /\ ~files["clusters.csv"].exists
    /\ p # <<>> \/ c # <<>>
    /\ files' = [files EXCEPT
                    !["predicted_classes.csv"] = IF p = <<>> THEN @ ELSE Written(@, p, 0),
                    !["clusters.csv"] = IF c = <<>> THEN @ ELSE Written(@, c, 0)]
    /\ UNCHANGED <<dir, gvars, cvars>>

----------------------------------------------------------------------------

Init ==
    /\ dir \in BOOLEAN
    /\ files = [n \in FileNames |-> NoFile]
    /\ run = 0
    /\ argv_plot = FALSE
    /\ gpc = "idle"
    /\ dir0 = FALSE
    /\ made = FALSE
    /\ cls = 0
    /\ dfs = <<>>
    /\ df = NoFrame
    /\ shown = FALSE
    /\ seed = 0
    /\ gerr = ""
    /\ cpc = "idle"
    /\ prediction = NoFrame
    /\ ground_truth = NoFrame
    /\ cluster_centers = NoFrame
    /\ fig = FALSE
    /\ ax = <<NoAxes, NoAxes>>
    /\ todo = <<>>
    /\ raised = NotRaised

Next ==
    \/ Generator
    \/ Comparator
    \/ \E p \in PredictionFiles \cup {<<>>}, c \in ClusterFiles \cup {<<>>} : External(p, c)

Spec == Init /\ [][Next]_vars

----------------------------------------------------------------------------
(* Properties of the Generator's files *)

Sample == files["sample_data.csv"]
Truth == files["ground_truth.csv"]

\* the lines of a file after its header line
DataLines(f) == SubSeq(f.lines, 2, Len(f.lines))
\* the fields of the lines of a file
Fields(f) == [k \in DOMAIN f.lines |-> Split(f.lines[k], ";")]

\* the dataset a run started with seed s generates
Dataset(s) == concat([c \in 1..N_CLASSES |-> ClassFrame(s, c - 1)])

FeatureHeader == [k \in 1..N_DIMS |-> <<FeatureName(k - 1)>>]

\* C1: after a run that completes both files are there, and sample_data.csv
\* and ground_truth.csv never hold anything but a header line and
\* N_CLASSES * N_SAMPLES data rows, however many runs wrote them.
C1_RowCounts ==
    /\ gpc = "done" => Sample.exists /\ Truth.exists /\ Sample.by = run /\ Truth.by = run
    /\ \A f \in {Sample, Truth} :
          f.exists => /\ Len(f.lines) >= 1
                      /\ Len(DataLines(f)) = N_CLASSES * N_SAMPLES
    /\ Sample.exists /\ Truth.exists => Len(DataLines(Sample)) = Len(DataLines(Truth))

\* a second run has completed and has written both files a second time
C1_Witness ==
    /\ gpc = "done"
    /\ Sample.n >= 2
    /\ Truth.n >= 2

\* C2: in ground_truth.csv the last field of data row k (counted from 0) is
\* the integer k \div N_SAMPLES written as an integer, which lies in
\* 0..N_CLASSES-1: the rows of class 0 first, then those of class 1, ...
C2_ClassColumn ==
    Truth.exists =>
        \A k \in 1..Len(DataLines(Truth)) :
            LET fs == Split(DataLines(Truth)[k], ";")
                c == (k - 1) \div N_SAMPLES
            IN  /\ Len(fs) = N_DIMS + 1
                /\ c \in 0..(N_CLASSES - 1)
                /\ fs[N_DIMS + 1] = FormatInt(c)
                /\ \A i \in DOMAIN fs[N_DIMS + 1] : IsDigit(fs[N_DIMS + 1][i])

\* a run has written ground_truth.csv and completed
C2_Witness ==
    /\ gpc = "done"
    /\ Truth.by = run
    /\ Len(DataLines(Truth)) = N_CLASSES * N_SAMPLES

\* C3: sample_data.csv has the N_DIMS feature columns and no cls column,
\* ground_truth.csv has the same columns and one cls column after them, and
\* the two files of one run have the same rows in the same order with the
\* same feature fields.
C3_Columns ==
    /\ Sample.exists =>
          /\ Fields(Sample)[1] = FeatureHeader
          /\ \A k \in DOMAIN Sample.lines : Len(Fields(Sample)[k]) = N_DIMS
    /\ Truth.exists =>
          /\ Fields(Truth)[1] = FeatureHeader \o <<<<"cls">>>>
          /\ \A k \in DOMAIN Truth.lines : Len(Fields(Truth)[k]) = N_DIMS + 1
    /\ Sample.exists /\ Truth.exists /\ Sample.by = Truth.by =>
          /\ Len(Sample.lines) = Len(Truth.lines)
          /\ \A k \in DOMAIN Sample.lines :
                Fields(Sample)[k] = SubSeq(Fields(Truth)[k], 1, N_DIMS)

\* both files of one completed run are on disk
C3_Witness ==
    /\ gpc = "done"
    /\ Sample.by = run
    /\ Truth.by = run
    /\ Len(Sample.lines) = N_CLASSES * N_SAMPLES + 1

----------------------------------------------------------------------------
(* Generator to Comparator *)

\* frame `read` holds the rows of the written frame `w`, in order: the class
\* label as the float of the same value, every feature within `slack` grid
\* steps of the value written
SameRows(read, w, slack) ==
    /\ Len(read.data) = Len(w.data)
    /\ \A k \in DOMAIN w.data :
          /\ \A i \in 1..N_DIMS :
                /\ ~read.data[k][i].nan
                /\ Abs(read.data[k][i].v - w.data[k][i]) <= slack
          /\ read.data[k][N_DIMS + 1] = Float(100 * w.data[k][N_DIMS + 1])

\* the Comparator has read the ground_truth.csv the completed run wrote
ReadBack ==
    /\ gpc = "done"
    /\ ground_truth # NoFrame

\* C4 as stated: ground_truth.csv, read back by the Comparator, gives the
\* very feature values and class labels the Generator wrote, row by row.
C4_RoundTripExact ==
    /\ gpc = "done" => raised.at # "read_truth"
    /\ ReadBack => SameRows(ground_truth, df, 0)

\* C4 amended: ground_truth.csv is always readable by the Comparator, and
\* read back it gives the rows the Generator wrote, none lost or added, in
\* order, each with its class label and with feature values equal to the
\* written ones up to the precision of the text conversion (one grid step).
C4_RoundTrip ==
    /\ gpc = "done" => raised.at # "read_truth"
    /\ ReadBack => SameRows(ground_truth, df, 1)

\* the Comparator has read the file back and finished, and a feature value
\* came back one grid step from the value written
C4_Witness ==
    /\ ReadBack
    /\ cpc = "done"
    /\ \E k \in DOMAIN df.data : \E i \in 1..N_DIMS :
          Abs(ground_truth.data[k][i].v - df.data[k][i]) = 1

AnyByRun == \E n \in {"sample_data.csv", "ground_truth.csv"} : files[n].by = run

\* C5: the plot of a --plot run is shown before the run writes any file, and
\* what a run writes is the dataset its draws give, with or without --plot.
C5_PlotFrame ==
    run >= 1 =>
        /\ gpc = "plot" => ~AnyByRun
        /\ argv_plot /\ AnyByRun => shown
        /\ ~argv_plot => ~shown
        /\ gpc \in {"write_sample", "write_truth", "done"} => df = Dataset(seed)
        /\ Sample.by = run =>
              Sample.lines = to_csv(Dataset(seed), ";", FALSE,
                                    [k \in 1..N_DIMS |-> FeatureName(k - 1)])
        /\ Truth.by = run =>
              Truth.lines = to_csv(Dataset(seed), ";", FALSE, Dataset(seed).columns)

\* a --plot run has shown its plot and written both files
C5_Witness ==
    /\ argv_plot
    /\ shown
    /\ gpc = "done"
    /\ Truth.by = run

\* C8: a run that finds no directory creates it before it generates or
\* writes anything; a run that finds the directory leaves it in place, calls
\* no mkdir, and when it completes has written both files.
C8_Directory ==
    run >= 1 =>
        /\ ~dir0 => /\ gpc \notin {"exists", "aborted"} => made /\ dir
                    /\ dfs # <<>> \/ df # NoFrame \/ AnyByRun => made /\ dir
                    /\ gerr \in {"plot", "sample", "truth"} => made /\ dir
        /\ dir0 => /\ dir
                   /\ ~made
                   /\ gerr # "mkdir"
                   /\ gpc = "done" => Sample.by = run /\ Truth.by = run
        /\ gpc = "done" => Sample.by = run /\ Truth.by = run

\* a run found no directory, created it and wrote both files
C8_Witness ==
    /\ ~dir0
    /\ made
    /\ gpc = "done"
    /\ Truth.by = run

----------------------------------------------------------------------------
(* Properties of the Comparator *)

Top == ax[1].series
Bottom == ax[2].series

\* the distinct class values of a frame (all NaN are one value)
Classes(frame) == Range(Column(frame, "cls"))

\* the top subplot is: one round-marker series per distinct predicted class,
\* then one x-marker series in red holding the cluster centres
TopShape ==
    LET k == Cardinality(Classes(prediction))
    IN  /\ Len(Top) = k + 1
        /\ \A i \in 1..k : Top[i].cycled /\ Top[i].marker = "o"
        /\ ~Top[k + 1].cycled
        /\ Top[k + 1].marker = "x"
        /\ Top[k + 1].color = "red"
        /\ Top[k + 1].x = Column(cluster_centers, "feature_1")
        /\ Top[k + 1].y = Column(cluster_centers, "feature_2")

\* C6 as stated: k distinct predicted classes give k series, each of a colour
\* of its own, and after them the one series of the cluster centres.
C6_SeriesDistinct ==
    cpc = "done" =>
        /\ TopShape
        /\ \A i, j \in 1..Len(Top) : i # j => Top[i].color # Top[j].color

\* C6 amended: k distinct predicted classes give k series and after them the
\* one series of the cluster centres; series i takes colour i of the default
\* cycle, which starts over after its last colour, so the class series have
\* colours of their own when k is at most the length of the cycle (10).
C6_Series ==
    cpc = "done" =>
        /\ TopShape
        /\ \A i \in 1..(Len(Top) - 1) :
              Top[i].color = CycleColors[((i - 1) % Len(CycleColors)) + 1]
        /\ Len(Top) - 1 <= Len(CycleColors) =>
              \A i, j \in 1..Len(Top) : i # j => Top[i].color # Top[j].color

\* the figure of a prediction with three distinct classes is done
C6_Witness ==
    /\ cpc = "done"
    /\ Cardinality(Classes(prediction)) = 3
    /\ Len(Top) = 4

ReadingSteps == {"read_prediction", "read_truth", "read_clusters"}

\* read_csv raises on the file, whatever the conversion does
Unreadable(name, names, skiprows) ==
    \A o \in read_csv(files[name], ";", names, skiprows) : o.error # ""

AnyUnreadable ==
    \/ Unreadable("predicted_classes.csv", <<"feature_1", "feature_2", "cls">>, 0)
    \/ Unreadable("ground_truth.csv", <<"feature_1", "feature_2", "cls">>, 1)
    \/ Unreadable("clusters.csv", <<"feature_1", "feature_2">>, 0)

Drawn(series, r) ==
    Cardinality({i \in DOMAIN series :
                    series[i].cycled /\ \E j \in DOMAIN series[i].rows : series[i].rows[j] = r})

\* C10: every row of predicted_classes.csv is in exactly one class series of
\* the top subplot and every row of ground_truth.csv in exactly one series of
\* the bottom subplot, whatever its class value, NaN included.
C10_Partition ==
    cpc = "done" =>
        /\ \A k \in DOMAIN prediction.index : Drawn(Top, prediction.index[k]) = 1
        /\ \A k \in DOMAIN ground_truth.index : Drawn(Bottom, ground_truth.index[k]) = 1

====
